---- MODULE Spec2Model ----
(***************************************************************************)
(* A model of ss_config/common.py: the path-addressed configuration tree   *)
(* (Config, ConfigValue and the typed leaves) and the configuration        *)
(* manager client (ConfigManagerClient).                                   *)
(*                                                                         *)
(* Python strings are sequences of one-character strings, so that          *)
(* str.split, f-string formatting and JSON text are computed character by  *)
(* character.  Every Python value is a record with the same six fields;    *)
(* the tag says which built-in type the value is an instance of:           *)
(*   "Config" a dict (Config is a dict subclass; a plain dict is a Config  *)
(*            record whose pp is NoneP), items in insertion order          *)
(*   "Str" "Int" "Float" "List"   str, int, float (n stands for n.0), list *)
(*   "None"   None, and "Other" a value of no recognised shape (a tuple)   *)
(* pp is the parental_path attribute.                                      *)
(***************************************************************************)
EXTENDS Integers, Sequences, FiniteSets, TLC

VARIABLES
    conf,       \* the Config the operations act on (self)
    other,      \* a second Config (updated_config of diff)
    ret,        \* the last operation: its name, arguments, result, exception
    nops,       \* number of operations applied so far
    wire,       \* the text produced by serialise
    endpoint,   \* ConfigManagerClient.endpoint, the cached address
    env,        \* os.environ.get('SS_CONFIG_MANAGER_ENDPOINT')
    file,       \* the content of /tmp/ss_config_manager_endpoint
    now,        \* time.time(), in seconds
    call,       \* the get_config call in progress: its position and locals
    ncalls      \* number of get_config calls made so far

treeVars == <<conf, other, ret, nops, wire>>

clientVars == <<endpoint, env, file, now, call, ncalls>>

vars == <<conf, other, ret, nops, wire, endpoint, env, file, now, call, ncalls>>

(***************************************************************************)
(* Strings                                                                 *)
(***************************************************************************)

\* parental_path = None (the default of every constructor)
NoneP == <<"None">>

\* str(None), what an f-string writes for None
NoneText == <<"N", "o", "n", "e">>

\* truthiness of a parental_path: None and "" are both false
Truthy(p) == p # NoneP /\ p # <<>>

\* f"{x}" of a str-or-None
Format(p) == IF p = NoneP THEN NoneText ELSE p

\* index of the first occurrence of c in s, 0 when there is none
IndexOf(s, c) ==
    IF \E i \in 1..Len(s) : s[i] = c
    THEN CHOOSE i \in 1..Len(s) : s[i] = c /\ \A j \in 1..(i - 1) : s[j] # c
    ELSE 0

\* raw_key.split('/', 1): key_parts[0]
SplitHead(s) ==
    IF IndexOf(s, "/") = 0 THEN s ELSE SubSeq(s, 1, IndexOf(s, "/") - 1)

\* len(key_parts) > 1
SplitHasTail(s) == IndexOf(s, "/") # 0

\* key_parts[1] (only read when len(key_parts) > 1)
SplitTail(s) == SubSeq(s, IndexOf(s, "/") + 1, Len(s))

\* truthiness of key_tail: None and "" are both false
TailTruthy(s) == SplitHasTail(s) /\ SplitTail(s) # <<>>

\* path.split('/'): every segment, empty ones included
RECURSIVE SplitAll(_)
SplitAll(s) ==
    IF IndexOf(s, "/") = 0 THEN <<s>>
    ELSE <<SplitHead(s)>> \o SplitAll(SplitTail(s))

(***************************************************************************)
(* Values                                                                  *)
(***************************************************************************)

Val(tag, pp, n, s, l, items) ==
    [tag |-> tag, pp |-> pp, n |-> n, s |-> s, l |-> l, items |-> items]

PyNone == Val("None", NoneP, 0, <<>>, <<>>, <<>>)
PyOther == Val("Other", NoneP, 0, <<>>, <<>>, <<>>)
PyInt(n) == Val("Int", NoneP, n, <<>>, <<>>, <<>>)
PyFloat(n) == Val("Float", NoneP, n, <<>>, <<>>, <<>>)
PyStr(s) == Val("Str", NoneP, 0, s, <<>>, <<>>)
PyList(l) == Val("List", NoneP, 0, <<>>, l, <<>>)
PyDict(items) == Val("Config", NoneP, 0, <<>>, <<>>, items)
Item(k, v) == [k |-> k, v |-> v]

\* the outcome of a call: the exception raised ("" when none) and the value
\* returned, or, for a mutating call, the object as the call left it
Outcome(exc, val) == [exc |-> exc, val |-> val]

\* key in d (dict.__contains__)
HasKey(items, k) == \E i \in 1..Len(items) : items[i].k = k

\* dict.__getitem__(d, k), for a key that is present
Lookup(items, k) == items[CHOOSE i \in 1..Len(items) : items[i].k = k].v

\* dict.__setitem__(d, k, v): a present key keeps its position
Put(items, k, v) ==
    IF HasKey(items, k)
    THEN [i \in 1..Len(items) |->
            IF items[i].k = k THEN Item(k, v) ELSE items[i]]
    ELSE Append(items, Item(k, v))

\* Python's == on the values of the model; parental_path takes no part
RECURSIVE PyEq(_, _)
PyEq(x, y) ==
    CASE x.tag \in {"Int", "Float"} /\ y.tag \in {"Int", "Float"} -> x.n = y.n
      [] x.tag = "Str" /\ y.tag = "Str" -> x.s = y.s
      [] x.tag = "List" /\ y.tag = "List" ->
            /\ Len(x.l) = Len(y.l)
            /\ \A i \in 1..Len(x.l) : PyEq(x.l[i], y.l[i])
      [] x.tag = "Config" /\ y.tag = "Config" ->
            /\ Len(x.items) = Len(y.items)
            /\ \A i \in 1..Len(x.items) :
                  /\ HasKey(y.items, x.items[i].k)
                  /\ PyEq(x.items[i].v, Lookup(y.items, x.items[i].k))
      [] x.tag = "None" /\ y.tag = "None" -> TRUE
      [] x.tag = "Other" /\ y.tag = "Other" -> TRUE
      [] OTHER -> FALSE

(***************************************************************************)
(* Config and ConfigValue                                                  *)
(***************************************************************************)

\* Config(): super().__init__() with self.parental_path = parental_path
EmptyConfig(pp) == Val("Config", pp, 0, <<>>, <<>>, <<>>)

\* f"{self.parental_path}/{key}" if self.parental_path else key
ChildPath(pp, key) == IF Truthy(pp) THEN pp \o <<"/">> \o key ELSE key

\* a faulty variant of NewIntermediate: the absent intermediate key is
\* entered without a Config to descend into
MissingIntermediate == PyNone

\* the Config() that __setitem__ puts at an absent intermediate key
NewIntermediate == EmptyConfig(NoneP)

RECURSIVE SetItem(_, _, _), ConfigValueGet(_, _), InitFrom(_, _, _)

\* Config.__setitem__(self, raw_key, value)
SetItem(self, raw_key, value) ==
    LET key == SplitHead(raw_key)
        key_tail == SplitTail(raw_key)
    IN  IF key = <<>> /\ TailTruthy(raw_key)
        THEN SetItem(self, key_tail, value)
        ELSE IF ~TailTruthy(raw_key)
        THEN LET r == ConfigValueGet(value, ChildPath(self.pp, key))
             IN  IF r.exc # "" THEN Outcome(r.exc, self)
                 ELSE Outcome("", [self EXCEPT !.items = Put(@, key, r.val)])
        ELSE LET s1 == IF HasKey(self.items, key) THEN self
                       ELSE [self EXCEPT
                               !.items = Put(@, key, NewIntermediate)]
                 child == Lookup(s1.items, key)
             IN  IF child.tag # "Config"
                 THEN Outcome("TypeError", s1)
                 ELSE LET r == SetItem(child, key_tail, value)
                      IN  Outcome(r.exc,
                                  [s1 EXCEPT !.items = Put(@, key, r.val)])

\* Config.__init__ with a dict: for key, val in contents.items(): self[key] = val
InitFrom(self, items, i) ==
    IF i > Len(items) THEN Outcome("", self)
    ELSE LET r == SetItem(self, items[i].k, items[i].v)
         IN  IF r.exc # "" THEN r ELSE InitFrom(r.val, items, i + 1)

\* Config(contents, parental_path) for a dict contents
ConfigInit(contents, pp) == InitFrom(EmptyConfig(pp), contents.items, 1)

\* ConfigValue.get(value, parental_path)
ConfigValueGet(value, pp) ==
    CASE value.tag = "Config" -> ConfigInit(value, pp)
      [] value.tag = "Str" -> Outcome("", [value EXCEPT !.pp = pp])
      [] value.tag = "Int" -> Outcome("", [value EXCEPT !.pp = pp])
      [] value.tag = "Float" -> Outcome("", [value EXCEPT !.pp = pp])
      [] value.tag = "List" -> Outcome("", [value EXCEPT !.pp = pp])
      [] OTHER -> Outcome("", PyNone)

\* Config.__getitem__(self, raw_key); val[key_tail] on anything but a Config
\* (a str, int, float, list or None subscripted by a str) is a TypeError
RECURSIVE GetItem(_, _)
GetItem(self, raw_key) ==
    LET key == SplitHead(raw_key)
        key_tail == SplitTail(raw_key)
    IN  IF key = <<>> /\ TailTruthy(raw_key)
        THEN GetItem(self, key_tail)
        ELSE IF ~HasKey(self.items, key)
        THEN Outcome("KeyError", PyNone)
        ELSE LET val == Lookup(self.items, key)
             IN  IF TailTruthy(raw_key)
                 THEN IF val.tag = "Config" THEN GetItem(val, key_tail)
                      ELSE Outcome("TypeError", PyNone)
                 ELSE Outcome("", val)

\* Config.keys(self)
RECURSIVE Keys(_), KeysFrom(_, _)
KeysFrom(self, i) ==
    IF i > Len(self.items) THEN <<>>
    ELSE LET k == self.items[i].k
             v == self.items[i].v
             here == IF v.tag = "Config"
                     THEN [j \in 1..Len(Keys(v)) |-> k \o <<"/">> \o Keys(v)[j]]
                     ELSE <<k>>
         IN  here \o KeysFrom(self, i + 1)
Keys(self) == KeysFrom(self, 1)

\* Config.deep_items(self): v.items() is dict.items, the direct entries of v
RECURSIVE DeepItemsFrom(_, _)
DeepItemsFrom(self, i) ==
    IF i > Len(self.items) THEN <<>>
    ELSE LET k == self.items[i].k
             v == self.items[i].v
             here == IF v.tag = "Config"
                     THEN [j \in 1..Len(v.items) |->
                             Item(k \o <<"/">> \o v.items[j].k, v.items[j].v)]
                     ELSE <<Item(k, v)>>
         IN  here \o DeepItemsFrom(self, i + 1)
DeepItems(self) == DeepItemsFrom(self, 1)

\* Config.must_get(self, path) for a str path: the value, or the
\* ConfigNotFoundError with its path ('/'.join(path)) and its key (element)
NotFound(path, element) ==
    [exc |-> "ConfigNotFoundError", val |-> PyNone, path |-> path, key |-> element]

RECURSIVE MustGetFrom(_, _, _, _)
MustGetFrom(current, raw, path, i) ==
    IF i > Len(path)
    THEN [exc |-> "", val |-> current, path |-> <<>>, key |-> <<>>]
    ELSE IF current.tag # "Config"
    THEN NotFound(raw, path[i])
    ELSE LET nxt == IF HasKey(current.items, path[i])
                    THEN Lookup(current.items, path[i])
                    ELSE PyNone
         IN  IF nxt.tag = "None"
             THEN NotFound(raw, path[i])
             ELSE MustGetFrom(nxt, raw, path, i + 1)

MustGet(self, path) == MustGetFrom(self, path, SplitAll(path), 1)

\* one entry of a diff: a tuple of len 3, (key, old, new), or of len 2, (key, new)
Entry(len, k, old, new) == [len |-> len, k |-> k, old |-> old, new |-> new]

\* Config.diff(self, updated_config): only KeyError is caught
RECURSIVE DiffFrom(_, _, _, _)
DiffFrom(self, updated, ks, i) ==
    IF i > Len(ks) THEN [exc |-> "", diffs |-> <<>>]
    ELSE LET new_value == GetItem(updated, ks[i])
             old_value == GetItem(self, ks[i])
             rest == DiffFrom(self, updated, ks, i + 1)
         IN  IF new_value.exc = "KeyError" THEN rest
             ELSE IF new_value.exc # "" THEN [exc |-> new_value.exc, diffs |-> <<>>]
             ELSE IF old_value.exc = "KeyError" THEN rest
             ELSE IF old_value.exc # "" THEN [exc |-> old_value.exc, diffs |-> <<>>]
             ELSE IF ~PyEq(new_value.val, old_value.val)
             THEN [exc |-> rest.exc,
                   diffs |-> IF rest.exc # "" THEN <<>>
                             ELSE <<Entry(3, ks[i], old_value.val, new_value.val)>>
                                  \o rest.diffs]
             ELSE rest

Diff(self, updated) == DiffFrom(self, updated, Keys(self), 1)

\* if key: an entry of another length leaves key = None, and "" is false too
KeyTruthy(item) == item.len \in {2, 3} /\ item.k # <<>>

\* Config.apply_diff(self, diff)
RECURSIVE ApplyDiffFrom(_, _, _)
ApplyDiffFrom(self, diff, i) ==
    IF i > Len(diff) THEN Outcome("", self)
    ELSE IF KeyTruthy(diff[i])
    THEN LET r == SetItem(self, diff[i].k, diff[i].new)
         IN  IF r.exc # "" THEN r ELSE ApplyDiffFrom(r.val, diff, i + 1)
    ELSE ApplyDiffFrom(self, diff, i + 1)

ApplyDiff(self, diff) == ApplyDiffFrom(self, diff, 1)

(***************************************************************************)
(* serialise and deserialise: the text is "<parental_path>:<json>"         *)
(***************************************************************************)

Digits == <<"0", "1", "2", "3", "4", "5", "6", "7", "8", "9">>

\* repr of a non-negative int
RECURSIVE NatText(_)
NatText(n) ==
    IF n < 10 THEN <<Digits[n + 1]>>
    ELSE NatText(n \div 10) \o <<Digits[(n % 10) + 1]>>

\* repr of an int
IntText(n) == IF n < 0 THEN <<"-">> \o NatText(0 - n) ELSE NatText(n)

\* a JSON string literal: '"' and the backslash are escaped (the strings of
\* the model hold no control or non-ASCII character)
RECURSIVE Escaped(_)
Escaped(s) ==
    IF s = <<>> THEN <<>>
    ELSE (IF Head(s) \in {"\"", "\\"} THEN <<"\\", Head(s)>> ELSE <<Head(s)>>)
         \o Escaped(Tail(s))

JsonString(s) == <<"\"">> \o Escaped(s) \o <<"\"">>

\* json.dumps(value) with the default separators ', ' and ': '
RECURSIVE JsonDumps(_), JsonMembers(_, _), JsonElements(_, _)
JsonDumps(v) ==
    CASE v.tag = "Config" -> <<"{">> \o JsonMembers(v.items, 1) \o <<"}">>
      [] v.tag = "List" -> <<"[">> \o JsonElements(v.l, 1) \o <<"]">>
      [] v.tag = "Str" -> JsonString(v.s)
      [] v.tag = "Int" -> IntText(v.n)
      [] v.tag = "Float" -> IntText(v.n) \o <<".", "0">>
      [] OTHER -> <<"n", "u", "l", "l">>

JsonMembers(items, i) ==
    IF i > Len(items) THEN <<>>
    ELSE (IF i > 1 THEN <<",", " ">> ELSE <<>>)
         \o JsonString(items[i].k) \o <<":", " ">> \o JsonDumps(items[i].v)
         \o JsonMembers(items, i + 1)

JsonElements(l, i) ==
    IF i > Len(l) THEN <<>>
    ELSE (IF i > 1 THEN <<",", " ">> ELSE <<>>)
         \o JsonDumps(l[i]) \o JsonElements(l, i + 1)

\* Config.serialise(self): f"{self.parental_path}:{json.dumps(self)}"
Serialise(self) == Format(self.pp) \o <<":">> \o JsonDumps(self)

\* the result of a parse step: whether it succeeded, the value (or the
\* string, for a string literal) and the position after it
Parsed(ok, val, str, pos) == [ok |-> ok, val |-> val, str |-> str, pos |-> pos]
ParseFail == Parsed(FALSE, PyNone, <<>>, 0)

\* the position of the first non-blank character at or after i
RECURSIVE SkipWs(_, _)
SkipWs(t, i) == IF i <= Len(t) /\ t[i] = " " THEN SkipWs(t, i + 1) ELSE i

DigitValue(c) == (CHOOSE d \in 1..10 : Digits[d] = c) - 1
IsDigit(c) == \E d \in 1..10 : Digits[d] = c

\* the digits from position i on: their value and the position after them
RECURSIVE ParseDigits(_, _, _)
ParseDigits(t, i, acc) ==
    IF i <= Len(t) /\ IsDigit(t[i])
    THEN ParseDigits(t, i + 1, acc * 10 + DigitValue(t[i]))
    ELSE Parsed(TRUE, PyInt(acc), <<>>, i)

\* a JSON number at i: an int, or a float when a fraction follows (the model
\* holds the floats n.0 only)
ParseNumber(t, i) ==
    LET neg == t[i] = "-"
        j == IF neg THEN i + 1 ELSE i
    IN  IF j > Len(t) \/ ~IsDigit(t[j]) THEN ParseFail
        ELSE LET d == ParseDigits(t, j, 0)
                 n == IF neg THEN 0 - d.val.n ELSE d.val.n
             IN  IF d.pos + 1 <= Len(t) /\ t[d.pos] = "." /\ t[d.pos + 1] = "0"
                 THEN Parsed(TRUE, PyFloat(n), <<>>, d.pos + 2)
                 ELSE Parsed(TRUE, PyInt(n), <<>>, d.pos)

\* a JSON string literal whose opening quote is before i
RECURSIVE ParseString(_, _, _)
ParseString(t, i, acc) ==
    IF i > Len(t) THEN ParseFail
    ELSE IF t[i] = "\"" THEN Parsed(TRUE, PyStr(acc), acc, i + 1)
    ELSE IF t[i] = "\\"
    THEN IF i + 1 <= Len(t) /\ t[i + 1] \in {"\"", "\\"}
         THEN ParseString(t, i + 2, Append(acc, t[i + 1]))
         ELSE ParseFail
    ELSE ParseString(t, i + 1, Append(acc, t[i]))

IsLiteral(t, i, word) ==
    /\ i + Len(word) - 1 <= Len(t)
    /\ SubSeq(t, i, i + Len(word) - 1) = word

\* a JSON value at or after i; a later pair of an object replaces an earlier
\* one of the same key (dict semantics)
RECURSIVE ParseValue(_, _), ParseMembers(_, _, _), ParseElements(_, _, _)
ParseValue(t, i0) ==
    LET i == SkipWs(t, i0)
    IN  IF i > Len(t) THEN ParseFail
        ELSE IF t[i] = "{"
        THEN IF SkipWs(t, i + 1) <= Len(t) /\ t[SkipWs(t, i + 1)] = "}"
             THEN Parsed(TRUE, PyDict(<<>>), <<>>, SkipWs(t, i + 1) + 1)
             ELSE ParseMembers(t, i + 1, <<>>)
        ELSE IF t[i] = "["
        THEN IF SkipWs(t, i + 1) <= Len(t) /\ t[SkipWs(t, i + 1)] = "]"
             THEN Parsed(TRUE, PyList(<<>>), <<>>, SkipWs(t, i + 1) + 1)
             ELSE ParseElements(t, i + 1, <<>>)
        ELSE IF t[i] = "\"" THEN ParseString(t, i + 1, <<>>)
        ELSE IF t[i] = "-" \/ IsDigit(t[i]) THEN ParseNumber(t, i)
        ELSE IF IsLiteral(t, i, <<"n", "u", "l", "l">>)
        THEN Parsed(TRUE, PyNone, <<>>, i + 4)
        ELSE ParseFail

ParseMembers(t, i0, acc) ==
    LET i == SkipWs(t, i0)
    IN  IF i > Len(t) \/ t[i] # "\"" THEN ParseFail
        ELSE LET k == ParseString(t, i + 1, <<>>)
                 c == SkipWs(t, k.pos)
             IN  IF ~k.ok \/ c > Len(t) \/ t[c] # ":" THEN ParseFail
                 ELSE LET v == ParseValue(t, c + 1)
                          e == SkipWs(t, v.pos)
                      IN  IF ~v.ok \/ e > Len(t) THEN ParseFail
                          ELSE IF t[e] = ","
                          THEN ParseMembers(t, e + 1, Put(acc, k.str, v.val))
                          ELSE IF t[e] = "}"
                          THEN Parsed(TRUE, PyDict(Put(acc, k.str, v.val)),
                                      <<>>, e + 1)
                          ELSE ParseFail

ParseElements(t, i0, acc) ==
    LET v == ParseValue(t, i0)
        e == SkipWs(t, v.pos)
    IN  IF ~v.ok \/ e > Len(t) THEN ParseFail
        ELSE IF t[e] = "," THEN ParseElements(t, e + 1, Append(acc, v.val))
        ELSE IF t[e] = "]"
        THEN Parsed(TRUE, PyList(Append(acc, v.val)), <<>>, e + 1)
        ELSE ParseFail

\* json.loads(text): one value and nothing but blanks after it
JsonLoads(t) ==
    LET v == ParseValue(t, 1)
    IN  IF v.ok /\ SkipWs(t, v.pos) > Len(t) THEN Outcome("", v.val)
        ELSE Outcome("JSONDecodeError", PyNone)

\* a faulty variant of ContentPart: the text after the last ':', as
\* raw_string.rsplit(':', 1) would split it
ContentAfterLastColon(raw) ==
    SubSeq(raw,
           (CHOOSE i \in 1..Len(raw) :
               raw[i] = ":" /\ \A j \in (i + 1)..Len(raw) : raw[j] # ":") + 1,
           Len(raw))

\* raw_string.split(':', 1)[0] and [1]
PathPart(raw) == SubSeq(raw, 1, IndexOf(raw, ":") - 1)
ContentPart(raw) == SubSeq(raw, IndexOf(raw, ":") + 1, Len(raw))

\* Config.deserialise(raw_string): unpacking the split of a text without ':'
\* into two names is a ValueError
Deserialise(raw) ==
    IF IndexOf(raw, ":") = 0 THEN Outcome("ValueError", PyNone)
    ELSE LET decoded == JsonLoads(ContentPart(raw))
         IN  IF decoded.exc # "" THEN decoded
             ELSE ConfigValueGet(decoded.val, PathPart(raw))

(***************************************************************************)
(* ConfigManagerClient                                                     *)
(***************************************************************************)

\* None in the endpoint, the environment variable (unset) and the file
\* (missing or unreadable: the read raises and the except clause passes)
Unset == "<None>"

\* truthiness of self.endpoint: None and "" are both false
EndpointTruthy(e) == e # Unset /\ e # ""

\* the locals of a call that has not started
NoCall ==
    [pc |-> "idle", timed |-> FALSE, timeout |-> 0, timestamp |-> 0,
     found |-> Unset, cached |-> FALSE, polls |-> 0, sleeps |-> 0,
     readFile |-> FALSE, fileReads |-> 0, envAtPoll |-> Unset,
     envHeld |-> FALSE, sent |-> FALSE, status |-> "", payload |-> <<>>,
     outcome |-> "", message |-> <<>>, result |-> PyNone]

\* ConfigManagerClient.__init__
ClientNew ==
    /\ endpoint = Unset
    /\ env = Unset
    /\ file = Unset
    /\ now = 0
    /\ call = NoCall
    /\ ncalls = 0

(***************************************************************************)
(* The tree under path-addressed writes and reads                          *)
(***************************************************************************)

\* at most this many __setitem__ calls in one behaviour
MaxOps == 2

\* the record kept of the last operation
NoRet ==
    [op |-> "new", path |-> <<>>, value |-> PyNone, exc |-> "", out |-> PyNone,
     keys |-> <<>>, its |-> <<>>, diffs |-> <<>>, pre |-> PyNone,
     errpath |-> <<>>, errkey |-> <<>>]

\* the raw mappings a tree is constructed from
InitRaws ==
    { PyDict(<<>>),
      PyDict(<<Item(<<"a">>, PyInt(1))>>),
      PyDict(<<Item(<<"a">>, PyDict(<<Item(<<"b">>, PyStr(<<"x">>))>>))>>) }

\* the parental paths a root is constructed with
InitPaths == { NoneP, <<"r">> }

\* the raw keys written and read
Paths ==
    { <<"a">>, <<"b">>, <<"a", "/", "b">>, <<"a", "/", "b", "/", "c">>,
      <<"/", "a">>, <<"a", "/", "/", "b">>, <<"a", "/">>, <<>>, <<"/">> }

\* the values written
Values ==
    { PyInt(1), PyStr(<<"x">>), PyFloat(2), PyList(<<PyInt(1)>>), PyOther,
      PyDict(<<Item(<<"c">>, PyInt(2))>>),
      PyDict(<<Item(<<"b", "/", "c">>, PyInt(1))>>),
      PyDict(<<Item(<<"b">>, PyInt(1)), Item(<<"b", "/", "c">>, PyInt(2))>>) }

Init ==
    /\ conf \in { ConfigInit(raw, pp).val : raw \in InitRaws, pp \in InitPaths }
    /\ other = EmptyConfig(NoneP)
    /\ ret = NoRet
    /\ nops = 0
    /\ wire = <<>>
    /\ ClientNew

\* conf[path] = value
SetOp(path, value) ==
    /\ nops < MaxOps
    /\ LET r == SetItem(conf, path, value)
       IN  /\ conf' = r.val
           /\ ret' = [NoRet EXCEPT !.op = "set", !.path = path, !.value = value,
                                   !.exc = r.exc, !.pre = conf]
    /\ nops' = nops + 1
    /\ UNCHANGED <<other, wire>>
    /\ UNCHANGED clientVars

Next ==
    \E path \in Paths, value \in Values : SetOp(path, value)

Spec == Init /\ [][Next]_vars

(***************************************************************************)
(* Reads of a constructed tree                                             *)
(***************************************************************************)

\* the raw mappings the trees that are read are constructed from
QueryRaws ==
    { PyDict(<<>>),
      PyDict(<<Item(<<"a">>, PyInt(1))>>),
      PyDict(<<Item(<<"a">>, PyDict(<<Item(<<"b">>, PyInt(1))>>)),
               Item(<<"b">>, PyList(<<PyInt(1)>>))>>),
      PyDict(<<Item(<<"a">>,
                    PyDict(<<Item(<<"b">>,
                                  PyDict(<<Item(<<"c">>, PyInt(1))>>))>>))>>),
      PyDict(<<Item(<<"a", "/", "b", "/", "c">>, PyStr(<<"x">>)),
               Item(<<"b">>, PyInt(2))>>),
      PyDict(<<Item(<<"a">>, PyOther)>>),
      PyDict(<<Item(<<"a">>, PyDict(<<>>)), Item(<<"b">>, PyInt(2))>>),
      PyDict(<<Item(<<>>, PyInt(1))>>) }

\* the paths read
QueryPaths ==
    { <<"a">>, <<"b">>, <<"a", "/", "b">>, <<"a", "/", "c">>,
      <<"a", "/", "b", "/", "c">>, <<"/", "a">>, <<"a", "/", "/", "b">>,
      <<"a", "/">>, <<>> }

InitQuery ==
    /\ conf \in { ConfigInit(raw, pp).val : raw \in QueryRaws, pp \in InitPaths }
    /\ other = EmptyConfig(NoneP)
    /\ ret = NoRet
    /\ nops = 0
    /\ wire = <<>>
    /\ ClientNew

\* conf[path]
GetOp(path) ==
    /\ LET r == GetItem(conf, path)
       IN  ret' = [NoRet EXCEPT !.op = "get", !.path = path, !.exc = r.exc,
                               !.out = r.val]
    /\ UNCHANGED <<conf, other, nops, wire>>
    /\ UNCHANGED clientVars

\* conf.must_get(path)
MustGetOp(path) ==
    /\ LET r == MustGet(conf, path)
       IN  ret' = [NoRet EXCEPT !.op = "must_get", !.path = path, !.exc = r.exc,
                               !.out = r.val, !.errpath = r.path,
                               !.errkey = r.key]
    /\ UNCHANGED <<conf, other, nops, wire>>
    /\ UNCHANGED clientVars

\* conf.keys()
KeysOp ==
    /\ ret' = [NoRet EXCEPT !.op = "keys", !.keys = Keys(conf)]
    /\ UNCHANGED <<conf, other, nops, wire>>
    /\ UNCHANGED clientVars

\* conf.deep_items()
DeepItemsOp ==
    /\ ret' = [NoRet EXCEPT !.op = "deep_items", !.its = DeepItems(conf)]
    /\ UNCHANGED <<conf, other, nops, wire>>
    /\ UNCHANGED clientVars

NextQuery ==
    \/ \E path \in QueryPaths : GetOp(path)
    \/ \E path \in QueryPaths : MustGetOp(path)
    \/ KeysOp
    \/ DeepItemsOp

SpecQuery == InitQuery /\ [][NextQuery]_vars

(***************************************************************************)
(* diff and apply_diff of two constructed trees                            *)
(***************************************************************************)

\* at most this many entries in a raw mapping a tree is constructed from
MaxItems == 2

DiffKeys == { <<>>, <<"a">>, <<"a", "/", "b">>, <<"x">> }

DiffValues == { PyInt(5), PyInt(6), PyStr(<<"5">>) }

RECURSIVE RawsOfLen(_)
RawsOfLen(n) ==
    IF n = 0 THEN { <<>> }
    ELSE { Append(items, Item(k, v)) :
             items \in RawsOfLen(n - 1), k \in DiffKeys, v \in DiffValues }

\* the trees diffed: Config(raw) for every raw mapping that constructs
DiffTrees ==
    { ConfigInit(PyDict(items), NoneP).val :
        items \in { i \in UNION { RawsOfLen(n) : n \in 0..MaxItems } :
                      ConfigInit(PyDict(i), NoneP).exc = "" } }

InitDiff ==
    /\ conf \in DiffTrees
    /\ other \in DiffTrees
    /\ ret = NoRet
    /\ nops = 0
    /\ wire = <<>>
    /\ ClientNew

\* conf.diff(other)
DiffOp ==
    /\ LET d == Diff(conf, other)
       IN  ret' = [NoRet EXCEPT !.op = "diff", !.exc = d.exc, !.diffs = d.diffs,
                               !.pre = conf]
    /\ UNCHANGED <<conf, other, nops, wire>>
    /\ UNCHANGED clientVars

\* conf.apply_diff(conf.diff(other)): nothing is applied when diff raises
ApplyDiffOp ==
    /\ LET d == Diff(conf, other)
           r == IF d.exc # "" THEN Outcome(d.exc, conf)
                ELSE ApplyDiff(conf, d.diffs)
       IN  /\ conf' = r.val
           /\ ret' = [NoRet EXCEPT !.op = "apply_diff", !.exc = r.exc,
                                   !.diffs = d.diffs, !.pre = conf]
    /\ UNCHANGED <<other, nops, wire>>
    /\ UNCHANGED clientVars

NextDiff == DiffOp \/ ApplyDiffOp

SpecDiff == InitDiff /\ [][NextDiff]_vars

(***************************************************************************)
(* The round trip of a constructed tree through its text                   *)
(***************************************************************************)

\* at most this many entries in a raw mapping a tree is serialised from
MaxEntries == 2

SerialKeys == { <<"a">>, <<"k", ":">>, <<"a", "/", "b">> }

SerialValues ==
    { PyInt(0), PyInt(12), PyStr(<<"x", ":", "\"">>),
      PyList(<<PyInt(1), PyStr(<<"y">>), PyList(<<>>)>>),
      PyDict(<<Item(<<"c">>, PyStr(<<>>))>>) }

\* the root parental paths: None, "", "r", "r/s" and "r:s"
SerialPaths ==
    { NoneP, <<>>, <<"r">>, <<"r", "/", "s">>, <<"r", ":", "s">> }

RECURSIVE SerialRawsOfLen(_)
SerialRawsOfLen(n) ==
    IF n = 0 THEN { <<>> }
    ELSE { Append(items, Item(k, v)) :
             items \in SerialRawsOfLen(n - 1),
             k \in SerialKeys, v \in SerialValues }

SerialRaws == UNION { SerialRawsOfLen(n) : n \in 0..MaxEntries }

InitSerial ==
    /\ conf \in { ConfigInit(PyDict(items), pp).val :
                    items \in { i \in SerialRaws :
                                  ConfigInit(PyDict(i), NoneP).exc = "" },
                    pp \in SerialPaths }
    /\ other = EmptyConfig(NoneP)
    /\ ret = NoRet
    /\ nops = 0
    /\ wire = <<>>
    /\ ClientNew

\* wire = conf.serialise()
SerialiseOp ==
    /\ ret.op = "new"
    /\ wire' = Serialise(conf)
    /\ ret' = [NoRet EXCEPT !.op = "serialise"]
    /\ UNCHANGED <<conf, other, nops>>
    /\ UNCHANGED clientVars

\* Config.deserialise(wire)
DeserialiseOp ==
    /\ ret.op = "serialise"
    /\ LET r == Deserialise(wire)
       IN  ret' = [NoRet EXCEPT !.op = "deserialise", !.exc = r.exc,
                               !.out = r.val]
    /\ UNCHANGED <<conf, other, nops, wire>>
    /\ UNCHANGED clientVars

NextSerial == SerialiseOp \/ DeserialiseOp

SpecSerial == InitSerial /\ [][NextSerial]_vars

(***************************************************************************)
(* get_config calls against a manager that publishes its endpoint          *)
(***************************************************************************)

\* at most this many get_config calls in one behaviour
MaxCalls == 2

\* the clock stops here
MaxTime == 3

\* time.sleep(1)
SleepSeconds == 1

\* the timeouts a call is made with, beside None
Timeouts == 0..2

EnvValues == { Unset, "tcp://env" }

\* (an empty file would yield "", which is cached and handed to connect)
FileValues == { Unset, "tcp://file" }

\* the payloads of a reply: a serialised tree and an error text
OkPayload == Serialise(ConfigInit(PyDict(<<Item(<<"a">>, PyInt(1))>>), <<"r">>).val)
ErrPayload == <<"n", "o">>

\* what the transport delivers to a call: the last two frames of a reply, or
\* nothing ("none") however long the call waits
Replies ==
    { [status |-> "none", payload |-> <<>>],
      [status |-> "0", payload |-> OkPayload],
      [status |-> "1", payload |-> ErrPayload] }

InitClient ==
    /\ conf = EmptyConfig(NoneP)
    /\ other = EmptyConfig(NoneP)
    /\ ret = NoRet
    /\ nops = 0
    /\ wire = <<>>
    /\ endpoint = Unset
    /\ env \in EnvValues
    /\ file \in FileValues
    /\ now = 0
    /\ call = NoCall
    /\ ncalls = 0

\* the manager publishes or withdraws its endpoint while the client is
\* between calls or asleep in its poll loop
Publish(e, f) ==
    /\ call.pc \in {"idle", "sleep"}
    /\ <<e, f>> # <<env, file>>
    /\ env' = e
    /\ file' = f
    /\ call' = [call EXCEPT !.envHeld = @ /\ e # Unset]
    /\ UNCHANGED <<endpoint, now, ncalls>>
    /\ UNCHANGED treeVars

\* get_config(path, timeout) is called; reply is what the transport will
\* deliver to it
Call(timed, timeout, reply) ==
    /\ call.pc = "idle"
    /\ ncalls < MaxCalls
    /\ call' = [NoCall EXCEPT !.pc = "resolve", !.timed = timed,
                              !.timeout = timeout, !.status = reply.status,
                              !.payload = reply.payload]
    /\ ncalls' = ncalls + 1
    /\ UNCHANGED <<endpoint, env, file, now>>
    /\ UNCHANGED treeVars

\* __get_manager_endpoint, up to the loop: a truthy cached endpoint is
\* returned at once
Resolve ==
    /\ call.pc = "resolve"
    /\ call' = IF EndpointTruthy(endpoint)
               THEN [call EXCEPT !.pc = "send", !.found = endpoint,
                                 !.cached = TRUE]
               ELSE [call EXCEPT !.pc = "test", !.timestamp = now,
                                 !.found = Unset, !.envHeld = env # Unset]
    /\ UNCHANGED <<endpoint, env, file, now, ncalls>>
    /\ UNCHANGED treeVars

\* while endpoint is None and
\*       (timeout is None or time.time() < timestamp + timeout)
LoopCondition ==
    /\ call.found = Unset
    /\ ~call.timed \/ now < call.timestamp + call.timeout

LoopTest ==
    /\ call.pc = "test"
    /\ call' = [call EXCEPT !.pc = IF LoopCondition THEN "poll" ELSE "end"]
    /\ UNCHANGED <<endpoint, env, file, now, ncalls>>
    /\ UNCHANGED treeVars

\* one poll attempt: the environment variable, and the file when it is unset
Poll ==
    /\ call.pc = "poll"
    /\ call' = [call EXCEPT !.pc = "sleep",
                            !.found = IF env # Unset THEN env ELSE file,
                            !.polls = @ + 1,
                            !.envAtPoll = env,
                            !.readFile = (env = Unset),
                            !.fileReads = IF env = Unset THEN @ + 1 ELSE @]
    /\ UNCHANGED <<endpoint, env, file, now, ncalls>>
    /\ UNCHANGED treeVars

\* time.sleep(1), at the end of every poll attempt
Sleep ==
    /\ call.pc = "sleep"
    /\ now + SleepSeconds <= MaxTime
    /\ now' = now + SleepSeconds
    /\ call' = [call EXCEPT !.pc = "test", !.sleeps = @ + 1]
    /\ UNCHANGED <<endpoint, env, file, ncalls>>
    /\ UNCHANGED treeVars

\* after the loop: TimeoutError, or the endpoint is cached and returned
EndDiscovery ==
    /\ call.pc = "end"
    /\ IF call.found = Unset
       THEN /\ call' = [call EXCEPT !.pc = "done", !.outcome = "TimeoutError"]
            /\ UNCHANGED endpoint
       ELSE /\ call' = [call EXCEPT !.pc = "send"]
            /\ endpoint' = call.found
    /\ UNCHANGED <<env, file, now, ncalls>>
    /\ UNCHANGED treeVars

\* sock.connect(ep); sock.send_multipart([path.encode()])
Send ==
    /\ call.pc = "send"
    /\ call' = [call EXCEPT !.pc = "log", !.sent = TRUE]
    /\ UNCHANGED <<endpoint, env, file, now, ncalls>>
    /\ UNCHANGED treeVars

\* logger.debuf("Requested config at {path}"): a Logger has no attribute
\* debuf, so the call ends here with AttributeError.  The statements after
\* it (the poll for the reply, the reset of self.endpoint on a timeout, the
\* decoding of the reply) are never reached, whatever the reply.
LogRequest ==
    /\ call.pc = "log"
    /\ call' = [call EXCEPT !.pc = "done", !.outcome = "AttributeError"]
    /\ UNCHANGED <<endpoint, env, file, now, ncalls>>
    /\ UNCHANGED treeVars

\* the exception has propagated to the caller
Return ==
    /\ call.pc = "done"
    /\ call' = [call EXCEPT !.pc = "idle"]
    /\ UNCHANGED <<endpoint, env, file, now, ncalls>>
    /\ UNCHANGED treeVars

NextClient ==
    \/ \E e \in EnvValues, f \in FileValues : Publish(e, f)
    \/ \E t \in Timeouts, r \in Replies : Call(TRUE, t, r)
    \/ \E r \in Replies : Call(FALSE, 0, r)
    \/ Resolve
    \/ LoopTest
    \/ Poll
    \/ Sleep
    \/ EndDiscovery
    \/ Send
    \/ LogRequest
    \/ Return

SpecClient == InitClient /\ [][NextClient]_vars

(***************************************************************************)
(* Properties of the tree                                                  *)
(***************************************************************************)

\* '/'.join(segs[:n])
RECURSIVE JoinFirst(_, _)
JoinFirst(segs, n) ==
    IF n = 0 THEN <<>>
    ELSE IF n = 1 THEN segs[1]
    ELSE JoinFirst(segs, n - 1) \o <<"/">> \o segs[n]

\* the proper prefixes of a path, as paths
ProperPrefixes(path) ==
    { JoinFirst(SplitAll(path), n) : n \in 1..(Len(SplitAll(path)) - 1) }

NonEmptySegments(path) ==
    \A i \in 1..Len(SplitAll(path)) : SplitAll(path)[i] # <<>>

\* no proper prefix of path that exists in tree holds anything but a Subtree
PrefixesFree(tree, path) ==
    \A q \in ProperPrefixes(path) :
        \/ GetItem(tree, q).exc = "KeyError"
        \/ GetItem(tree, q).exc = "" /\ GetItem(tree, q).val.tag = "Config"

\* one of the five recognised shapes
RecognisedShape(v) == v.tag \in {"Config", "Str", "Int", "Float", "List"}

\* a recognised shape whose mappings, at every depth, have no '/' in a key
\* and hold such values again
RECURSIVE PlainValue(_)
PlainValue(v) ==
    /\ RecognisedShape(v)
    /\ v.tag = "Config" =>
          \A i \in 1..Len(v.items) :
              /\ IndexOf(v.items[i].k, "/") = 0
              /\ PlainValue(v.items[i].v)

\* after a set that returned, get(path) is value and the prefixes are Subtrees
SetThenGet ==
    /\ ret.exc = ""
    /\ GetItem(conf, ret.path).exc = ""
    /\ PyEq(GetItem(conf, ret.path).val, ret.value)
    /\ \A q \in ProperPrefixes(ret.path) :
          GetItem(conf, q).exc = "" /\ GetItem(conf, q).val.tag = "Config"

\* C1 as stated: for every tree, every path p of non-empty segments none of
\* whose existing proper prefixes holds a non-Subtree, and every value v of a
\* recognised shape, set(p, v) makes get(p) equal to v and every proper
\* prefix of p a Subtree.
C1_SetThenGet_AnyShape ==
    (ret.op = "set" /\ NonEmptySegments(ret.path)
        /\ PrefixesFree(ret.pre, ret.path) /\ RecognisedShape(ret.value))
    => SetThenGet

\* C1 amended: the same for every value v of a recognised shape whose
\* mappings, at every depth, have no '/' in a key and hold such values.
C1_SetThenGet ==
    (ret.op = "set" /\ NonEmptySegments(ret.path)
        /\ PrefixesFree(ret.pre, ret.path) /\ PlainValue(ret.value))
    => SetThenGet

\* C1's case: a mapping was set at a three-segment path below an existing
\* Subtree, the last intermediate node being created by the call
C1_Witness ==
    /\ ret.op = "set"
    /\ ret.path = <<"a", "/", "b", "/", "c">>
    /\ GetItem(ret.pre, <<"a">>).exc = ""
    /\ GetItem(ret.pre, <<"a", "/", "b">>).exc = "KeyError"
    /\ PrefixesFree(ret.pre, ret.path)
    /\ ret.value.tag = "Config" /\ PlainValue(ret.value)
    /\ SetThenGet

\* the parental_path a node at path q under a root of parental path P has
ExpectedPath(P, q) == IF Truthy(P) THEN P \o <<"/">> \o q ELSE q

\* every Subtree and typed leaf at or below node, itself at path q, carries
\* the parental path of its place (root: whether node is the root)
RECURSIVE PathsBelow(_, _, _, _)
PathsBelow(node, P, q, root) ==
    /\ (~root /\ node.tag \in {"Config", "Str", "Int", "Float", "List"})
          => node.pp = ExpectedPath(P, q)
    /\ node.tag = "Config" =>
          \A i \in 1..Len(node.items) :
              PathsBelow(node.items[i].v, P,
                         IF root THEN node.items[i].k
                         ELSE q \o <<"/">> \o node.items[i].k,
                         FALSE)

\* C9: after construction from a raw nested mapping and any sequence of set
\* operations on a tree whose root parental path is P, every Subtree and leaf
\* reachable at path q has parentalPath P + "/" + q, or q when P is empty.
C9_ParentalPaths == PathsBelow(conf, conf.pp, <<>>, TRUE)

\* C2: deep_items() returns exactly one (path, value) pair for each leaf path
\* of keys(), in the same order, the value being get(path) and never a
\* Subtree, at any nesting depth.
C2_DeepItemsAreLeaves ==
    ret.op = "deep_items" =>
        /\ Len(ret.its) = Len(Keys(conf))
        /\ \A i \in 1..Len(ret.its) :
              /\ ret.its[i].k = Keys(conf)[i]
              /\ GetItem(conf, ret.its[i].k).exc = ""
              /\ ret.its[i].v = GetItem(conf, ret.its[i].k).val
              /\ ret.its[i].v.tag # "Config"

\* the first segment of path that does not resolve from node: absent from
\* its node, or reached after a leaf (<<"-">>, no segment, when all resolve)
RECURSIVE FirstUnresolved(_, _, _)
FirstUnresolved(node, segs, i) ==
    IF i > Len(segs) THEN <<"-">>
    ELSE IF node.tag # "Config" \/ ~HasKey(node.items, segs[i]) THEN segs[i]
    ELSE FirstUnresolved(Lookup(node.items, segs[i]), segs, i + 1)

\* C10: must_get is equivalent to get on every tree and path string: the same
\* value whenever get succeeds, ConfigNotFoundError exactly when get fails,
\* naming the requested path and the first unresolved segment.
C10_MustGetIsGet ==
    ret.op = "must_get" =>
        LET g == GetItem(conf, ret.path)
        IN  /\ g.exc = "" => (ret.exc = "" /\ ret.out = g.val)
            /\ g.exc # "" <=> ret.exc = "ConfigNotFoundError"
            /\ ret.exc # "" =>
                  /\ ret.errpath = ret.path
                  /\ ret.errkey =
                        FirstUnresolved(conf, SplitAll(ret.path), 1)

\* the entries the claim describes: (k, A[k], B[k]) in A.keys() order for the
\* keys B resolves to an unequal value; any failure to resolve skips the key
RECURSIVE ChangedFrom(_, _, _, _)
ChangedFrom(A, B, ks, i) ==
    IF i > Len(ks) THEN <<>>
    ELSE LET a == GetItem(A, ks[i])
             b == GetItem(B, ks[i])
         IN  (IF a.exc = "" /\ b.exc = "" /\ ~PyEq(a.val, b.val)
              THEN <<Entry(3, ks[i], a.val, b.val)>> ELSE <<>>)
             \o ChangedFrom(A, B, ks, i + 1)

\* C3: A.diff(B) completes without raising and returns exactly the entries
\* (k, A[k], B[k]), in A.keys() order, of the leaf keys of A that B resolves
\* to an unequal value; a key B cannot resolve (absent, or a leaf at an
\* intermediate segment) is skipped.
C3_DiffSkipsUnresolved ==
    ret.op = "diff" =>
        /\ ret.exc = ""
        /\ ret.diffs = ChangedFrom(conf, other, Keys(conf), 1)

\* C4: after A.apply_diff(A.diff(B)) every leaf key of A that B resolves (the
\* empty string included) reads in A as it reads in B, every other key of A
\* reads as before, and keys() is unchanged where B held a leaf.
C4_ApplyDiffOfDiff ==
    (ret.op = "apply_diff" /\ ret.exc = "") =>
        \A i \in 1..Len(Keys(ret.pre)) :
            LET k == Keys(ret.pre)[i]
                b == GetItem(other, k)
            IN  IF b.exc = ""
                THEN /\ GetItem(conf, k).exc = ""
                     /\ PyEq(GetItem(conf, k).val, b.val)
                ELSE GetItem(conf, k) = GetItem(ret.pre, k)

\* the text was read back into a tree with the keys and leaf values of conf
ReadBack ==
    /\ ret.exc = ""
    /\ ret.out.tag = "Config"
    /\ Keys(ret.out) = Keys(conf)
    /\ PyEq(ret.out, conf)
    /\ \A i \in 1..Len(Keys(conf)) :
          LET a == GetItem(conf, Keys(conf)[i])
              b == GetItem(ret.out, Keys(conf)[i])
          IN  a.exc = b.exc /\ PyEq(a.val, b.val)

\* C5 as stated: for every tree t built from a raw nested mapping of strings,
\* integers and lists, with any root parental path (None included),
\* deserialise(t.serialise()) succeeds with the keys() of t and an equal value
\* at every leaf path.
C5_RoundTrip_AnyPath == ret.op = "deserialise" => ReadBack

\* C5 amended: the same for every root parental path that holds no ':'.
C5_RoundTrip ==
    (ret.op = "deserialise" /\ IndexOf(Format(conf.pp), ":") = 0) => ReadBack

\* C5's case: a tree without a parental path, holding a nested Subtree, a
\* list and a string with ':' and '"' in it, was read back from its text
C5_Witness ==
    /\ ret.op = "deserialise"
    /\ conf.pp = NoneP
    /\ \E i \in 1..Len(conf.items) : conf.items[i].v.tag = "Config"
    /\ \E i \in 1..Len(conf.items) :
          conf.items[i].v.tag \in {"List", "Str"}
    /\ ReadBack
    /\ ret.out.pp = NoneText

(***************************************************************************)
(* Properties of the client                                                *)
(***************************************************************************)

\* C6: once the request is sent, a reply whose status frame is b"0" makes
\* get_config return the tree deserialised from the last frame, a reply with
\* any other status makes it raise the remote error whose message is the
\* decoded last frame, and no other exception is raised on either path.
C6_ReplyDecides ==
    (call.pc = "done" /\ call.sent /\ call.status # "none") =>
        IF call.status = "0"
        THEN /\ call.outcome = "return"
             /\ call.result = Deserialise(call.payload).val
        ELSE /\ call.outcome = "Exception"
             /\ call.message = call.payload

\* C7: when no reply arrives within the request timeout, get_config resets
\* the cached endpoint to unknown and fails with the request timeout, so the
\* next call discovers again; nothing else clears the cache, and a call that
\* finds the cache warm does not poll.
C7_TimeoutClearsCache ==
    /\ (call.pc = "done" /\ call.sent /\ call.timed /\ call.status = "none")
          => (endpoint = Unset /\ call.outcome = "TimeoutError")
    /\ call.cached => call.polls = 0

\* C8: with an empty cache, discovery returns the environment variable
\* whenever it is set, for any timeout, without reading the file; it reads
\* the file only in a poll attempt where the variable is unset; and it fails
\* with the discovery timeout only when the timeout has elapsed with neither
\* source yielding a value, with timeout 0 before any sleep.
C8_Discovery ==
    /\ (call.pc \in {"send", "log", "done"} /\ ~call.cached /\ call.envHeld)
          => /\ call.outcome # "TimeoutError"
             /\ call.found = env
             /\ call.fileReads = 0
    /\ call.readFile => call.envAtPoll = Unset
    /\ (call.pc = "done" /\ call.outcome = "TimeoutError")
          => /\ call.timed
             /\ now >= call.timestamp + call.timeout
             /\ call.found = Unset
             /\ call.timeout = 0 => call.sleeps = 0

====
